---- MODULE Spec2Model ----
(***************************************************************************)
(* A model of ocr_app.py (upscnoob/OCR_App): the markdown/image            *)
(* reassembler (replace_images_in_markdown,                                *)
(* get_combined_markdown_optimized), the OCR orchestrator (get_ocr_result, *)
(* memoised by st.cache_data), the document fetcher (get_data_from_url)    *)
(* and the Streamlit script with its Run OCR and Clear handlers.           *)
(*                                                                         *)
(* Text is a sequence of one-character strings.  A base64 payload and a    *)
(* data-URI header are single opaque tokens of such a sequence: the        *)
(* base64 alphabet holds none of the characters ! [ ] ( ) or white space,  *)
(* so a payload never takes part in a placeholder match.                   *)
(* An optional value (Python None or a value) is <<>> or <<v>>.            *)
(***************************************************************************)
EXTENDS Integers, Sequences, FiniteSets, TLC

VARIABLES
    \* ---- reassembler run (get_combined_markdown_optimized) ----
    pages,          \* ocr_response.pages of the call
    page_idx,       \* number of pages the loop of line 27 has consumed
    markdowns,      \* the list of line 26
    combined,       \* Some(return value of line 37) once returned
    \* ---- Streamlit script, session and caches ----
    api_key,        \* widget api_key_input (line 128)
    input,          \* widgets input_method / file_uploader / url_input
    session,        \* st.session_state (lines 116-121)
    url_cache,      \* st.cache_data store of get_data_from_url
    ocr_cache,      \* st.cache_data store of get_ocr_result
    messages,       \* st.error / st.success elements of the current script run
    crashed,        \* an exception escaped the script
    \* ---- one execution of the body of get_ocr_result ----
    pc,             \* position in the body, "idle" outside it
    args,           \* the arguments of the running call
    client,         \* local client (line 67)
    mistral_uploaded_file, \* local of line 68
    ocr_response,   \* local of line 85
    outcome,        \* pending return value or exception of the try block
    calls,          \* provider requests issued by this execution, in order
    provider_files, \* artifacts currently stored at the provider
    next_id,        \* next artifact id the provider hands out
    \* ---- history ----
    runs,           \* executions of the body started so far
    requested,      \* <<bytes, name hint>> of the finished executions
    last_event      \* what the last completed user interaction did

combine_vars == <<pages, page_idx, markdowns, combined>>
app_vars == <<api_key, input, session, url_cache, ocr_cache, messages, crashed,
              pc, args, client, mistral_uploaded_file, ocr_response, outcome,
              calls, provider_files, next_id, runs, requested, last_event>>
vars == <<combine_vars, app_vars>>

None == <<>>
Some(v) == <<v>>

\* ------------------------------------------------------------------
\* Bounds
\* ------------------------------------------------------------------
MaxPages == 2
MaxRuns == 2

\* ------------------------------------------------------------------
\* Text
\* ------------------------------------------------------------------
IsWs(c) == c \in {" ", "\n"}

ImageIds == {"a", "b"}

\* The literal placeholder ![id](id).
Placeholder(id) == <<"!", "[", id, "]", "(", id, ")">>

PngHeader == "data:image/png;base64,"
JpegHeader == "data:image/jpeg;base64,"
DataImageHeaders == {PngHeader, JpegHeader}

RECURSIVE SkipWs(_, _)
\* \s* : the first index >= i of s that holds no white space.
SkipWs(s, i) ==
    IF i <= Len(s) /\ IsWs(s[i]) THEN SkipWs(s, i + 1) ELSE i

At(s, i, c) == i <= Len(s) /\ s[i] = c

\* The index after a match of  !\[\s*id\s*\]\(\s*id\s*\)  starting at i, or 0.
MatchEnd(s, i, id) ==
    IF ~(At(s, i, "!") /\ At(s, i + 1, "[")) THEN 0
    ELSE LET j1 == SkipWs(s, i + 2) IN
         IF ~At(s, j1, id) THEN 0
         ELSE LET j2 == SkipWs(s, j1 + 1) IN
              IF ~(At(s, j2, "]") /\ At(s, j2 + 1, "(")) THEN 0
              ELSE LET j3 == SkipWs(s, j2 + 2) IN
                   IF ~At(s, j3, id) THEN 0
                   ELSE LET j4 == SkipWs(s, j3 + 1) IN
                        IF At(s, j4, ")") THEN j4 + 1 ELSE 0

RECURSIVE SubFromFirstOnly(_, _, _, _)
\* Mutant of SubFrom: pattern.sub(repl, s, count=1).
SubFromFirstOnly(s, i, id, repl) ==
    IF i > Len(s) THEN <<>>
    ELSE LET e == MatchEnd(s, i, id) IN
         IF e > 0 THEN repl \o SubSeq(s, e, Len(s))
         ELSE <<s[i]>> \o SubFromFirstOnly(s, i + 1, id, repl)

RECURSIVE SubFrom(_, _, _, _)
\* pattern.sub(repl, s): leftmost non-overlapping matches, left to right.
SubFrom(s, i, id, repl) ==
    IF i > Len(s) THEN <<>>
    ELSE LET e == MatchEnd(s, i, id) IN
         IF e > 0 THEN repl \o SubFrom(s, e, id, repl)
         ELSE <<s[i]>> \o SubFrom(s, i + 1, id, repl)

\* f"![{img_id}]({base64_data_uri})"
Replacement(id, uri) == <<"!", "[", id, "]", "(">> \o uri \o <<")">>

RECURSIVE replace_images_in_markdown(_, _)
\* images_dict is the dict in iteration order: a sequence of [id, uri].
replace_images_in_markdown(markdown_str, images_dict) ==
    IF images_dict = <<>> THEN markdown_str
    ELSE LET e == Head(images_dict) IN
         replace_images_in_markdown(
             SubFrom(markdown_str, 1, e.id, Replacement(e.id, e.uri)),
             Tail(images_dict))

StartsWithDataImage(b64) == Len(b64) > 0 /\ b64[1] \in DataImageHeaders

\* The value lines 31-34 store for an image with a payload.
DataUri(b64) ==
    IF StartsWithDataImage(b64) THEN b64 ELSE <<PngHeader>> \o b64

\* image_data[id] = uri on a dict kept in insertion order.
DictSet(d, id, uri) ==
    IF \E k \in 1..Len(d) : d[k].id = id
    THEN [k \in 1..Len(d) |-> IF d[k].id = id THEN [id |-> id, uri |-> uri] ELSE d[k]]
    ELSE Append(d, [id |-> id, uri |-> uri])

RECURSIVE BuildImageData(_, _)
\* Lines 28-34: an image with an empty (or None) image_base64 is skipped.
BuildImageData(images, d) ==
    IF images = <<>> THEN d
    ELSE LET img == Head(images) IN
         BuildImageData(Tail(images),
             IF Len(img.image_base64) > 0
             THEN DictSet(d, img.id, DataUri(img.image_base64))
             ELSE d)

RECURSIVE ImagesOf(_)
ImagesOf(ps) == IF ps = <<>> THEN <<>> ELSE Head(ps).images \o ImagesOf(Tail(ps))

\* Mutant of ImageData: image_data = {} set once, before the page loop.
ImageDataAcrossPages(page) ==
    BuildImageData(ImagesOf(SubSeq(pages, 1, page_idx)) \o page.images, <<>>)

ImageData(page) == BuildImageData(page.images, <<>>)

\* Line 35: missing or empty markdown is "".
PageMd(page) == IF Len(page.markdown) > 0 THEN page.markdown ELSE <<>>

\* Line 36: what one iteration appends to markdowns.
PageResult(page) == replace_images_in_markdown(PageMd(page), ImageData(page))

Separator == <<"\n", "\n">>

RECURSIVE JoinReversed(_)
\* Mutant of Join: the pages are joined last to first.
JoinReversed(ms) ==
    IF ms = <<>> THEN <<>>
    ELSE IF Len(ms) = 1 THEN ms[1]
    ELSE JoinReversed(Tail(ms)) \o Separator \o ms[1]

RECURSIVE Join(_)
\* "\n\n".join(markdowns)
Join(ms) ==
    IF ms = <<>> THEN <<>>
    ELSE IF Len(ms) = 1 THEN ms[1]
    ELSE ms[1] \o Separator \o Join(Tail(ms))

RECURSIVE ResultsOf(_)
ResultsOf(ps) ==
    IF ps = <<>> THEN <<>> ELSE <<PageResult(Head(ps))>> \o ResultsOf(Tail(ps))

\* The whole function, as the orchestrator calls it (line 92).
get_combined_markdown_optimized(ps) == Join(ResultsOf(ps))

\* ------------------------------------------------------------------
\* Inputs of the reassembler
\* ------------------------------------------------------------------
Img(id, b64) == [id |-> id, image_base64 |-> b64]

MdSamples ==
    { <<>>,
      <<"x">>,
      Placeholder("a"),
      <<"!", "[", " ", "a", " ", "]", "(", " ", "a", "\n", ")", "x">> \o Placeholder("a"),
      Placeholder("b") \o <<"x">> \o Placeholder("a"),
      <<"!", "[", "a", "]", "(", "b", ")", "!", "[", "b", "]">> }

ImagesSamples ==
    { <<>>,
      <<Img("a", <<"QQ==">>)>>,
      <<Img("a", <<>>)>>,
      <<Img("b", <<"QQ==">>)>>,
      <<Img("a", <<"QQ==">>), Img("a", <<JpegHeader, "RR==">>)>>,
      <<Img("b", <<JpegHeader, "RR==">>), Img("a", <<"QQ==">>)>> }

PageSamples == [markdown : MdSamples, images : ImagesSamples]

PagesInputs == UNION { [1..n -> PageSamples] : n \in 0..MaxPages }

\* ------------------------------------------------------------------
\* get_combined_markdown_optimized, one loop iteration per step
\* ------------------------------------------------------------------
CombineIdle ==
    /\ pages = <<>>
    /\ page_idx = 0
    /\ markdowns = <<>>
    /\ combined = None

\* Lines 27-36: one iteration of the page loop.
CombinePage ==
    /\ combined = None
    /\ page_idx < Len(pages)
    /\ markdowns' = Append(markdowns, PageResult(pages[page_idx + 1]))
    /\ page_idx' = page_idx + 1
    /\ UNCHANGED <<pages, combined>>

\* Line 37: the loop is over, join and return.
CombineReturn ==
    /\ combined = None
    /\ page_idx = Len(pages)
    /\ combined' = Some(Join(markdowns))
    /\ UNCHANGED <<pages, page_idx, markdowns>>

\* ------------------------------------------------------------------
\* Inputs of the application
\* ------------------------------------------------------------------
SUPPORTED_IMAGE_TYPES == {".png", ".jpg", ".jpeg", ".webp", ".gif", ".bmp"}
SUPPORTED_PDF_TYPES == {".pdf"}

\* "" is the empty text input; the others are credentials.
ApiKeys == {"", "k1", "k2"}

\* A file name or the last path segment of a URL, split as Path(..).stem does.
Name(stem, ext) == [stem |-> stem, ext |-> ext]

GoodUrl == [scheme |-> "https://", name |-> Name("doc", ".pdf")]
BadUrl == [scheme |-> "ftp://", name |-> Name("doc", ".pdf")]

\* What the input widgets can hold: nothing, an uploaded file, a URL.
InputChoices ==
    { [kind |-> "none"],
      [kind |-> "file", data |-> "d1", name |-> Name("doc", ".png")],
      [kind |-> "file", data |-> "d1", name |-> Name("doc", ".pdf")],
      [kind |-> "file", data |-> "d2", name |-> Name("doc", ".pdf")],
      [kind |-> "url", url |-> GoodUrl],
      [kind |-> "url", url |-> BadUrl] }

\* What requests.get can do: raise (None is returned), or hand back content.
FetchOutcomes == { None, Some("d1"), Some("") }

\* What ocr.process can answer.  bad_escape: an image id holding a backslash,
\* on which pattern.sub raises re.error (the reassembly step fails).
ResponseSamples ==
    { [pages |-> <<[markdown |-> Placeholder("a"),
                    images |-> <<Img("a", <<"QQ==">>)>>],
                   [markdown |-> <<"x">> \o Placeholder("b"), images |-> <<>>]>>,
       bad_escape |-> FALSE],
      [pages |-> <<[markdown |-> <<"x">>, images |-> <<>>]>>,
       bad_escape |-> TRUE] }

\* Python truthiness of an optional str / bytes value.
Truthy(opt) == opt # None /\ opt[1] # ""

\* Lines 164-165.
FileNameStem(name) == IF name.stem = "" THEN "file_from_url" ELSE name.stem
\* Line 169.
IsImage(name) == name.ext \in SUPPORTED_IMAGE_TYPES
\* Line 172.
IsPdf(name) == name.ext = ".pdf"

\* Line 154.
ValidScheme(url) == url.scheme \in {"http://", "https://"}

InputName(inp) ==
    IF inp.kind = "file" THEN inp.name
    ELSE IF inp.kind = "url" THEN inp.url.name
    ELSE Name("", "")

\* ------------------------------------------------------------------
\* get_data_from_url under st.cache_data
\* ------------------------------------------------------------------
EmptyUrlCache == [u \in {GoodUrl, BadUrl} |-> None]

\* Lines 54-59: both except clauses catch, whatever requests raised.
FetchCatches(fetched) == TRUE

\* The value the call hands to line 157: the cached one, or the fetched one.
GetDataFromUrl(url, cache, fetched) ==
    IF cache[url] # None THEN cache[url][1] ELSE fetched

\* The cache after the call: every returned value is stored, None included.
UrlCacheAfter(url, cache, fetched) ==
    IF cache[url] # None \/ (fetched = None /\ ~FetchCatches(fetched)) THEN cache
    ELSE [cache EXCEPT ![url] = Some(fetched)]

\* ------------------------------------------------------------------
\* The top of the script (lines 128-180), run on every interaction
\* ------------------------------------------------------------------
\* Local uploaded_file_data after lines 134-159.
LocalData(inp, cache, fetched) ==
    IF inp.kind = "file" THEN Some(inp.data)
    ELSE IF inp.kind = "url" /\ ValidScheme(inp.url)
         THEN GetDataFromUrl(inp.url, cache, fetched)
    ELSE None

\* st.error elements of lines 55/58 (replayed by the cache) and 155.
TopMessages(inp, cache, fetched) ==
    IF inp.kind # "url" THEN {}
    ELSE IF ~ValidScheme(inp.url) THEN {"invalid_url"}
    ELSE IF GetDataFromUrl(inp.url, cache, fetched) = None THEN {"url_error"}
    ELSE {}

\* st.session_state after lines 149/159 and 162-180.
TopSession(sess, inp, cache, fetched) ==
    LET data == LocalData(inp, cache, fetched) IN
    IF Truthy(data)
    THEN [sess EXCEPT !.uploaded_file_data = data,
                      !.current_file_name_stem = FileNameStem(InputName(inp)),
                      !.is_image = IsImage(InputName(inp)),
                      !.is_pdf = IsPdf(InputName(inp))]
    ELSE [sess EXCEPT !.uploaded_file_data = None]

\* Lines 218-219: the stored error is shown on every script run.
ErrorBanner(sess) == IF Truthy(sess.ocr_error) THEN {"last_attempt_failed"} ELSE {}

\* Lines 116-121.
InitialSession ==
    [combined_markdown |-> None, ocr_error |-> None,
     current_file_name_stem |-> "ocr_result", uploaded_file_data |-> None,
     is_image |-> FALSE, is_pdf |-> FALSE]

\* ------------------------------------------------------------------
\* State outside a reassembler run / outside the application
\* ------------------------------------------------------------------
AppInit ==
    /\ api_key = ""
    /\ input = [kind |-> "none"]
    /\ session = InitialSession
    /\ url_cache = EmptyUrlCache
    /\ ocr_cache = {}
    /\ messages = {}
    /\ crashed = FALSE
    /\ pc = "idle"
    /\ args = None
    /\ client = FALSE
    /\ mistral_uploaded_file = None
    /\ ocr_response = None
    /\ outcome = None
    /\ calls = <<>>
    /\ provider_files = {}
    /\ next_id = 1
    /\ runs = 0
    /\ requested = {}
    /\ last_event = "other"

body_vars == <<pc, args, client, mistral_uploaded_file, ocr_response, outcome,
               calls, provider_files, next_id, runs, requested>>

\* get_data_from_url really issues a request (cache miss on a valid URL).
Fetches(inp, cache) ==
    inp.kind = "url" /\ ValidScheme(inp.url) /\ cache[inp.url] = None

\* The request of this script run raised.
FetchFailed(inp, cache, fetched) == Fetches(inp, cache) /\ fetched = None

\* The script is between two interactions and has not died.
Ready == pc = "idle" /\ ~crashed

\* ------------------------------------------------------------------
\* Interactions that press no button: the script runs top to bottom
\* ------------------------------------------------------------------
\* Lines 128, then 130-180 and 216-255 of the rerun.
SetApiKey(k) ==
    /\ Ready
    /\ k # api_key
    /\ api_key' = k
    /\ session' = TopSession(session, input, url_cache, None)
    /\ messages' = TopMessages(input, url_cache, None) \cup ErrorBanner(session')
    /\ last_event' = "other"
    /\ UNCHANGED <<input, url_cache, ocr_cache, crashed, body_vars, combine_vars>>

\* Lines 132-159 with a new widget value, then 161-180 and 216-255.
SetInput(inp, fetched) ==
    /\ Ready
    /\ inp # input
    /\ Fetches(inp, url_cache) \/ fetched = None
    /\ input' = inp
    /\ url_cache' = IF Fetches(inp, url_cache)
                    THEN UrlCacheAfter(inp.url, url_cache, fetched)
                    ELSE url_cache
    /\ crashed' = (FetchFailed(inp, url_cache, fetched) /\ ~FetchCatches(fetched))
    /\ session' = IF crashed' THEN session
                  ELSE TopSession(session, inp, url_cache, fetched)
    /\ messages' = IF crashed' THEN {}
                   ELSE TopMessages(inp, url_cache, fetched) \cup ErrorBanner(session')
    /\ last_event' = IF FetchFailed(inp, url_cache, fetched)
                     THEN "fetch_failed" ELSE "other"
    /\ UNCHANGED <<api_key, ocr_cache, body_vars, combine_vars>>

\* Lines 205-214: reset the session, st.rerun(), and the rerun's lines 130-180.
ClearClick ==
    /\ Ready
    /\ session' = TopSession(InitialSession, input, url_cache, None)
    /\ messages' = TopMessages(input, url_cache, None) \cup ErrorBanner(session')
    /\ last_event' = "clear"
    /\ UNCHANGED <<api_key, input, url_cache, ocr_cache, crashed, body_vars,
                   combine_vars>>

\* ------------------------------------------------------------------
\* Run OCR (lines 186-202) and get_ocr_result under st.cache_data
\* ------------------------------------------------------------------
\* Line 187: the button is enabled.
RunEnabled == api_key # "" /\ Truthy(LocalData(input, url_cache, None))

\* The arguments of line 193-198; st.cache_data keys the store on all four.
RunArgs ==
    [api_key |-> api_key,
     file_data |-> LocalData(input, url_cache, None)[1],
     file_name_stem |-> FileNameStem(InputName(input)),
     is_image |-> IsImage(InputName(input))]

\* Mutant of CacheHit: the function is not memoised.
CacheHitNever(key) == FALSE

\* st.cache_data holds a value for these arguments.
CacheHit(key) == \E e \in ocr_cache : e.key = key

CachedValue(key) == (CHOOSE e \in ocr_cache : e.key = key).value

\* Mutant of RunReset: line 189 is missing.
RunResetErrorOnly(sess) == [sess EXCEPT !.ocr_error = None]

\* Lines 189-190.
RunReset(sess) == [sess EXCEPT !.combined_markdown = None, !.ocr_error = None]

\* Run OCR on arguments the cache holds: the body is not executed.
RunCached ==
    /\ Ready
    /\ RunEnabled
    /\ CacheHit(RunArgs)
    /\ session' = [RunReset(TopSession(session, input, url_cache, None))
                       EXCEPT !.combined_markdown = Some(CachedValue(RunArgs))]
    /\ messages' = TopMessages(input, url_cache, None) \cup {"ocr_complete"}
                       \cup ErrorBanner(session')
    /\ last_event' = "run_cached"
    /\ UNCHANGED <<api_key, input, url_cache, ocr_cache, crashed, body_vars,
                   combine_vars>>

\* Run OCR on new arguments: lines 189-190, then the body starts (lines 67-68).
RunStart ==
    /\ Ready
    /\ RunEnabled
    /\ ~CacheHit(RunArgs)
    /\ runs < MaxRuns
    /\ runs' = runs + 1
    /\ session' = RunReset(TopSession(session, input, url_cache, None))
    /\ messages' = TopMessages(input, url_cache, None)
    /\ pc' = "client"
    /\ args' = Some(RunArgs)
    /\ client' = FALSE
    /\ mistral_uploaded_file' = None
    /\ ocr_response' = None
    /\ outcome' = None
    /\ calls' = <<>>
    /\ last_event' = "other"
    /\ UNCHANGED <<api_key, input, url_cache, ocr_cache, crashed, provider_files,
                   next_id, requested, combine_vars>>

Call(op, ok) == [op |-> op, ok |-> ok]
Return(v) == [kind |-> "return", value |-> v, error |-> ""]
Raise(e) == [kind |-> "raise", value |-> <<>>, error |-> e]

\* Mutant of NextPc: a failed step is tried again.
NextPcRetry(next, ok) == IF ok THEN next ELSE pc

\* Where the body goes after a step of the try block: on, or (an exception
\* leaves the try block, lines 94-98) to the finally clause.
NextPc(next, ok) == IF ok THEN next ELSE "finally"

\* Line 70.
MakeClient(ok) ==
    /\ pc = "client"
    /\ client' = ok
    /\ outcome' = IF ok THEN outcome ELSE Some(Raise("client_error"))
    /\ pc' = NextPc("upload", ok)
    /\ UNCHANGED <<api_key, input, session, url_cache, ocr_cache, messages, crashed,
                   args, mistral_uploaded_file, ocr_response, calls, provider_files,
                   next_id, runs, requested, last_event, combine_vars>>

\* Lines 73-77.
Upload(ok) ==
    /\ pc = "upload"
    /\ calls' = Append(calls, Call("upload", ok))
    /\ mistral_uploaded_file' = IF ok THEN Some(next_id) ELSE None
    /\ provider_files' = IF ok THEN provider_files \cup {next_id} ELSE provider_files
    /\ next_id' = IF ok THEN next_id + 1 ELSE next_id
    /\ outcome' = IF ok THEN outcome ELSE Some(Raise("upload_error"))
    /\ pc' = NextPc("sign", ok)
    /\ UNCHANGED <<api_key, input, session, url_cache, ocr_cache, messages, crashed,
                   args, client, ocr_response, runs, requested, last_event,
                   combine_vars>>

\* Line 80.
Sign(ok) ==
    /\ pc = "sign"
    /\ calls' = Append(calls, Call("sign", ok))
    /\ outcome' = IF ok THEN outcome ELSE Some(Raise("sign_error"))
    /\ pc' = NextPc("process", ok)
    /\ UNCHANGED <<api_key, input, session, url_cache, ocr_cache, messages, crashed,
                   args, client, mistral_uploaded_file, ocr_response, provider_files,
                   next_id, runs, requested, last_event, combine_vars>>

\* Lines 85-89: the provider fails, or answers with some response.
Process(ok, resp) ==
    /\ pc = "process"
    /\ calls' = Append(calls, Call("process", ok))
    /\ ocr_response' = IF ok THEN Some(resp) ELSE None
    /\ outcome' = IF ok THEN outcome ELSE Some(Raise("process_error"))
    /\ pc' = NextPc("combine", ok)
    /\ UNCHANGED <<api_key, input, session, url_cache, ocr_cache, messages, crashed,
                   args, client, mistral_uploaded_file, provider_files, next_id,
                   runs, requested, last_event, combine_vars>>

\* Line 92.
Reassemble ==
    /\ pc = "combine"
    /\ outcome' = IF ocr_response[1].bad_escape
                  THEN Some(Raise("reassembly_error"))
                  ELSE Some(Return(get_combined_markdown_optimized(ocr_response[1].pages)))
    /\ pc' = "finally"
    /\ UNCHANGED <<api_key, input, session, url_cache, ocr_cache, messages, crashed,
                   args, client, mistral_uploaded_file, ocr_response, calls,
                   provider_files, next_id, runs, requested, last_event, combine_vars>>

\* Mutant of FinallyDeletes: the delete sits at the end of the try block.
FinallyDeletesOnSuccess(c, f) == c /\ f # None /\ outcome[1].kind = "return"

\* Mutant of FinallyDeletes: the test of mistral_uploaded_file is missing.
FinallyDeletesWithoutFile(c, f) == c

\* Line 100.
FinallyDeletes(c, f) == c /\ f # None

\* Mutant of OutcomeAfterDelete: the delete is not wrapped in try/except.
OutcomeAfterDeleteRaises(out, ok) ==
    IF ok THEN out ELSE Some([kind |-> "raise", value |-> <<>>, error |-> "delete_error"])

\* Lines 101-107: the except clause swallows what delete raised.
OutcomeAfterDelete(out, ok) == out

\* mistral_uploaded_file.id, as the set of ids the delete request names.
ArtifactIds(f) == IF f = None THEN {} ELSE {f[1]}

\* Lines 98-107, with a delete request that succeeds or raises.
FinallyDelete(ok) ==
    /\ pc = "finally"
    /\ FinallyDeletes(client, mistral_uploaded_file)
    /\ calls' = Append(calls, Call("delete", ok))
    /\ provider_files' = IF ok THEN provider_files \ ArtifactIds(mistral_uploaded_file)
                         ELSE provider_files
    /\ outcome' = OutcomeAfterDelete(outcome, ok)
    /\ pc' = "exit"
    /\ UNCHANGED <<api_key, input, session, url_cache, ocr_cache, messages, crashed,
                   args, client, mistral_uploaded_file, ocr_response, next_id, runs,
                   requested, last_event, combine_vars>>

\* Lines 98-100 with nothing to delete.
FinallySkip ==
    /\ pc = "finally"
    /\ ~FinallyDeletes(client, mistral_uploaded_file)
    /\ pc' = "exit"
    /\ UNCHANGED <<api_key, input, session, url_cache, ocr_cache, messages, crashed,
                   args, client, mistral_uploaded_file, ocr_response, outcome, calls,
                   provider_files, next_id, runs, requested, last_event, combine_vars>>

\* The call is over: its locals (lines 67-68, 80, 85) are gone.
BodyLocalsDie ==
    /\ args' = None
    /\ client' = FALSE
    /\ mistral_uploaded_file' = None
    /\ ocr_response' = None
    /\ outcome' = None
    /\ calls' = <<>>

\* Mutant of HandlerCatches: the call of line 193 is not inside a try block.
HandlerCatchesNothing(out) == FALSE

\* Line 200: except Exception catches whatever get_ocr_result raised.
HandlerCatches(out) == TRUE

\* The call returns: the cache stores the value, lines 193 and 199 run.
ExitReturn ==
    /\ pc = "exit"
    /\ outcome[1].kind = "return"
    /\ ocr_cache' = ocr_cache \cup {[key |-> args[1], value |-> outcome[1].value]}
    /\ session' = [session EXCEPT !.combined_markdown = Some(outcome[1].value)]
    /\ messages' = messages \cup {"ocr_complete"} \cup ErrorBanner(session')
    /\ requested' = requested \cup {<<args[1].file_data, args[1].file_name_stem>>}
    /\ pc' = "idle"
    /\ BodyLocalsDie
    /\ last_event' = "run_ok"
    /\ UNCHANGED <<api_key, input, url_cache, crashed, provider_files, next_id,
                   runs, combine_vars>>

\* The call raises: nothing is cached, lines 200-202 run.
ExitRaise ==
    /\ pc = "exit"
    /\ outcome[1].kind = "raise"
    /\ crashed' = ~HandlerCatches(outcome[1])
    /\ session' = IF crashed' THEN session
                  ELSE [session EXCEPT !.ocr_error = Some(outcome[1].error)]
    /\ messages' = IF crashed' THEN messages
                   ELSE messages \cup {"an_error_occurred"} \cup ErrorBanner(session')
    /\ requested' = requested \cup {<<args[1].file_data, args[1].file_name_stem>>}
    /\ pc' = "idle"
    /\ BodyLocalsDie
    /\ last_event' = "run_failed"
    /\ UNCHANGED <<api_key, input, url_cache, ocr_cache, provider_files, next_id,
                   runs, combine_vars>>

\* ------------------------------------------------------------------
\* Specifications
\* ------------------------------------------------------------------
Init == AppInit /\ CombineIdle

Next ==
    \/ \E k \in ApiKeys : SetApiKey(k)
    \/ \E inp \in InputChoices, fetched \in FetchOutcomes : SetInput(inp, fetched)
    \/ ClearClick
    \/ RunCached
    \/ RunStart
    \/ \E ok \in BOOLEAN : MakeClient(ok)
    \/ \E ok \in BOOLEAN : Upload(ok)
    \/ \E ok \in BOOLEAN : Sign(ok)
    \/ \E ok \in BOOLEAN, resp \in ResponseSamples : Process(ok, resp)
    \/ Reassemble
    \/ \E ok \in BOOLEAN : FinallyDelete(ok)
    \/ FinallySkip
    \/ ExitReturn
    \/ ExitRaise

\* The application: any sequence of interactions, one at a time.
Spec == Init /\ [][Next]_vars

CombineInit ==
    /\ AppInit
    /\ pages \in PagesInputs
    /\ page_idx = 0
    /\ markdowns = <<>>
    /\ combined = None

CombineNext ==
    \/ CombinePage /\ UNCHANGED app_vars
    \/ CombineReturn /\ UNCHANGED app_vars

\* A call of get_combined_markdown_optimized on any bounded response.
SpecCombine == CombineInit /\ [][CombineNext]_vars

\* ------------------------------------------------------------------
\* Properties of get_ocr_result (checked under Spec)
\* ------------------------------------------------------------------
Issued(op) == { i \in 1..Len(calls) : calls[i].op = op }
Succeeded(op) == \E i \in 1..Len(calls) : calls[i] = Call(op, TRUE)
Failed(op) == \E i \in 1..Len(calls) : calls[i] = Call(op, FALSE)
IsStep(c) == c.op \in {"upload", "sign", "process"}
StepOrder == <<"upload", "sign", "process">>

\* C1: whenever the upload step succeeded, exactly one delete request for the
\* uploaded artifact has been issued when the call returns or raises, whatever
\* happened after the upload; it is the last request of the call, no call ever
\* issues two, and a delete that succeeded leaves no artifact of the call at
\* the provider.
C1_DeleteExactlyOnce ==
    /\ Cardinality(Issued("delete")) <= 1
    /\ (pc = "exit" /\ Succeeded("upload")) =>
           /\ Cardinality(Issued("delete")) = 1
           /\ calls[Len(calls)].op = "delete"
           /\ calls[Len(calls)].ok => mistral_uploaded_file[1] \notin provider_files

\* C1 witness: the provider failed at the process step and the call is over.
C1_Witness ==
    pc = "exit" /\ Succeeded("upload") /\ Failed("process") /\ Issued("delete") # {}

\* C2: when the upload step failed, or the client could not be constructed, no
\* delete request is issued during the call.
C2_NoDeleteWithoutUpload ==
    ~Succeeded("upload") => Issued("delete") = {}

\* C2 witness: a call that ends after a failed upload.
C2_Witness == pc = "exit" /\ Failed("upload")

\* The outcome steps 1-4 decide: the error of the step that failed, or the
\* combined markdown of the response.
StepsOutcome ==
    IF ~client THEN Raise("client_error")
    ELSE IF Failed("upload") THEN Raise("upload_error")
    ELSE IF Failed("sign") THEN Raise("sign_error")
    ELSE IF Failed("process") THEN Raise("process_error")
    ELSE IF ocr_response[1].bad_escape THEN Raise("reassembly_error")
    ELSE Return(Join(ResultsOf(ocr_response[1].pages)))

\* C3: a failure of the delete request is never re-raised and never changes the
\* outcome of the call: when the call ends it returns the combined markdown if
\* steps 1-4 succeeded and raises the failed step's own error otherwise.
C3_DeleteFailureKeepsOutcome ==
    pc = "exit" => outcome = Some(StepsOutcome)

\* C3 witness: the delete request failed after a failed process step.
C3_Witness ==
    pc = "exit" /\ Failed("delete") /\ Failed("process")

\* C4: upload, get_signed_url and ocr.process are issued in that order, each at
\* most once: the requests of a call are a prefix of (upload, sign, process), a
\* step is issued only after the one before it succeeded, nothing is retried
\* after a failure, and only the delete request can follow.
C4_StrictSequence ==
    LET steps == SelectSeq(calls, IsStep) IN
    /\ Len(steps) <= 3
    /\ \A i \in 1..Len(steps) : steps[i].op = StepOrder[i]
    /\ \A i \in 1..(Len(steps) - 1) : steps[i].ok
    /\ \A i \in 1..Len(calls) : calls[i].op = "delete" => i = Len(calls)

\* C4 witness: a call that ends after sign failed.
C4_Witness == pc = "exit" /\ Failed("sign")

\* ------------------------------------------------------------------
\* Properties of the handlers (checked under Spec)
\* ------------------------------------------------------------------
OrchestratorErrors ==
    {"client_error", "upload_error", "sign_error", "process_error", "reassembly_error"}

\* C8 as stated: both a fetch failure and a provider failure end up as a
\* user-visible message and as the stored last error, and neither crashes.
C8_Original ==
    /\ ~crashed
    /\ last_event \in {"fetch_failed", "run_failed"} => session.ocr_error # None

\* C8 amended: neither failure leaves the script; a provider failure is caught
\* by the Run OCR handler, shown and stored in ocr_error; a fetch failure is
\* caught inside get_data_from_url, shown, and leaves no document, but is not
\* stored: ocr_error only ever holds an error of get_ocr_result.
C8_ErrorsCaught ==
    /\ ~crashed
    /\ last_event = "run_failed" =>
           /\ session.ocr_error # None
           /\ {"an_error_occurred", "last_attempt_failed"} \subseteq messages
    /\ last_event = "fetch_failed" =>
           /\ "url_error" \in messages
           /\ session.uploaded_file_data = None
    /\ session.ocr_error # None => session.ocr_error[1] \in OrchestratorErrors

\* C8 witness: a fetch failed and no error is stored.
C8_Witness ==
    last_event = "fetch_failed" /\ "url_error" \in messages /\ session.ocr_error = None

\* C9 as stated: a call whose document bytes and name hint were those of an
\* earlier call causes no provider request.
C9_Original ==
    calls # <<>> => <<args[1].file_data, args[1].file_name_stem>> \notin requested

\* C9 amended: a call whose credential, document bytes, name hint and is_image
\* flag are those of an earlier call that returned executes nothing: the body
\* never runs on arguments the cache holds, and a Run OCR served by the cache
\* issues no request and stores the cached markdown.
C9_CachedRunsMakeNoCalls ==
    /\ pc # "idle" => \A e \in ocr_cache : e.key # args[1]
    /\ last_event = "run_cached" =>
           /\ pc = "idle" /\ calls = <<>>
           /\ \E e \in ocr_cache : /\ e.key = RunArgs
                                   /\ session.combined_markdown = Some(e.value)

\* C9 witness: a Run OCR was served by the cache.
C9_Witness == last_event = "run_cached" /\ runs >= 1

\* C10: the stored result and the stored error are never both set; a Run that
\* failed leaves the result empty and the error set; Clear leaves both empty.
C10_ResultXorError ==
    /\ ~(session.combined_markdown # None /\ session.ocr_error # None)
    /\ last_event = "run_failed" =>
           session.combined_markdown = None /\ session.ocr_error # None
    /\ last_event = "clear" =>
           session.combined_markdown = None /\ session.ocr_error = None

\* C10 witness: a Run failed after an earlier Run had produced a result.
C10_Witness == last_event = "run_failed" /\ ocr_cache # {}

\* ------------------------------------------------------------------
\* Properties of get_combined_markdown_optimized (checked under SpecCombine)
\* ------------------------------------------------------------------
Contains(s, t) ==
    \E i \in 1..(Len(s) - Len(t) + 1) : SubSeq(s, i, i + Len(t) - 1) = t

\* The places of s where a placeholder of id (white space tolerated) starts.
Matches(s, id) == { i \in 1..Len(s) : MatchEnd(s, i, id) > 0 }

\* The entries of a page's image list for id / those that carry a payload.
Entries(page, id) == { j \in 1..Len(page.images) : page.images[j].id = id }
PayloadEntries(page, id) ==
    { j \in Entries(page, id) : page.images[j].image_base64 # <<>> }

\* ![id](data-uri) for the payload b64, written out.
Resolved(id, b64) ==
    <<"!", "[", id, "]", "(">>
        \o (IF b64[1] \in {"data:image/png;base64,", "data:image/jpeg;base64,"}
            THEN b64 ELSE <<"data:image/png;base64,">> \o b64)
        \o <<")">>

Last(S) == CHOOSE j \in S : \A m \in S : m <= j

\* C5 as stated: for every page whose markdown contains ![id](id) and whose
\* image list has an entry for id, the output contains ![id](data-uri) for such
\* an entry and the page's part holds no unresolved ![id](id).
C5_Original ==
    combined # None =>
        \A k \in 1..Len(pages), id \in ImageIds :
            (Contains(pages[k].markdown, Placeholder(id)) /\ Entries(pages[k], id) # {}) =>
                /\ \E j \in Entries(pages[k], id) :
                       /\ pages[k].images[j].image_base64 # <<>>
                       /\ Contains(combined[1],
                                   Resolved(id, pages[k].images[j].image_base64))
                /\ ~Contains(markdowns[k], Placeholder(id))

\* C5 amended: for every page whose markdown contains ![id](id) and whose image
\* list has an entry for id that carries a payload, the output contains
\* ![id](data-uri) for the last such entry and the page's part holds no
\* placeholder of id any more.
C5_PlaceholdersResolved ==
    combined # None =>
        \A k \in 1..Len(pages), id \in ImageIds :
            (Contains(pages[k].markdown, Placeholder(id)) /\ PayloadEntries(pages[k], id) # {}) =>
                LET b64 == pages[k].images[Last(PayloadEntries(pages[k], id))].image_base64 IN
                /\ Contains(combined[1], Resolved(id, b64))
                /\ Contains(markdowns[k], Resolved(id, b64))
                /\ ~Contains(markdowns[k], Placeholder(id))
                /\ Matches(markdowns[k], id) = {}

\* C5 witness: a page with two placeholders of one id, one of them with white
\* space, and two image entries for that id.
C5_Witness ==
    /\ combined # None
    /\ \E k \in 1..Len(pages), id \in ImageIds :
           /\ Contains(pages[k].markdown, Placeholder(id))
           /\ Cardinality(Matches(pages[k].markdown, id)) = 2
           /\ Cardinality(PayloadEntries(pages[k], id)) = 2

\* C6: a page's markdown is left as it is wherever no substitution applies: a
\* page with no images, or with no placeholders, yields its markdown verbatim,
\* and the placeholders of an id that the page's own image map lacks (also when
\* another page has that id) stay where and as they were.
C6_UnmatchedUnchanged ==
    combined # None =>
        \A k \in 1..Len(pages) :
            /\ pages[k].images = <<>> => markdowns[k] = pages[k].markdown
            /\ (\A id \in ImageIds : Matches(pages[k].markdown, id) = {})
                   => markdowns[k] = pages[k].markdown
            /\ \A id \in ImageIds :
                   PayloadEntries(pages[k], id) = {} =>
                       /\ Cardinality(Matches(markdowns[k], id))
                              = Cardinality(Matches(pages[k].markdown, id))
                       /\ Contains(pages[k].markdown, Placeholder(id))
                              => Contains(markdowns[k], Placeholder(id))

\* C6 witness: a placeholder whose id only another, earlier page has.
C6_Witness ==
    /\ combined # None
    /\ \E k \in 1..Len(pages), m \in 1..Len(pages), id \in ImageIds :
           /\ m < k
           /\ Contains(pages[k].markdown, Placeholder(id))
           /\ PayloadEntries(pages[k], id) = {}
           /\ PayloadEntries(pages[m], id) # {}

RECURSIVE Offset(_, _)
\* Where part k starts in parts joined by a two-character separator.
Offset(ms, k) == IF k = 1 THEN 1 ELSE Offset(ms, k - 1) + Len(ms[k - 1]) + 2

\* out is ms[1], "\n\n", ms[2], ..., ms[n], and nothing else.
IsJoinOf(out, ms) ==
    IF ms = <<>> THEN out = <<>>
    ELSE /\ Len(out) = Offset(ms, Len(ms)) + Len(ms[Len(ms)]) - 1
         /\ \A k \in 1..Len(ms) :
                LET o == Offset(ms, k) IN
                /\ SubSeq(out, o, o + Len(ms[k]) - 1) = ms[k]
                /\ k < Len(ms) =>
                       /\ out[o + Len(ms[k])] = "\n"
                       /\ out[o + Len(ms[k]) + 1] = "\n"

Swap(seq, i, j) ==
    [k \in 1..Len(seq) |-> IF k = i THEN seq[j] ELSE IF k = j THEN seq[i] ELSE seq[k]]

\* C7: the output is the per-page results in input page order, separated by
\* exactly one blank line; swapping two input pages swaps their parts in the
\* output; an empty page list yields the empty string.
C7_OrderPreserved ==
    combined # None =>
        /\ Len(markdowns) = Len(pages)
        /\ IsJoinOf(combined[1], markdowns)
        /\ pages = <<>> => combined[1] = <<>>
        /\ \A i \in 1..Len(pages), j \in 1..Len(pages) :
               IsJoinOf(get_combined_markdown_optimized(Swap(pages, i, j)),
                        Swap(markdowns, i, j))

\* C7 witness: two pages with different results have been joined.
C7_Witness ==
    combined # None /\ Len(pages) = 2 /\ markdowns[1] # markdowns[2]

====
